---- MODULE Spec2Model ----
(***************************************************************************)
(* Room lifecycle and real-time synchronisation of the quiz backend        *)
(* (src/server.js, last revision of the file, lines 1018-1621).            *)
(*                                                                         *)
(* A payload is a record that holds only the fields the client sent:       *)
(* a field that is absent from the record is JavaScript's undefined.       *)
(* A question is represented by its correctAnswer index, the only part of  *)
(* a question the server reads.  Room objects carry an object identity     *)
(* (oid): timers and pending generation calls close over the room object,  *)
(* not over the room code.  questionTimers is the map from room code to    *)
(* timer handle; timeouts holds the callbacks setTimeout has scheduled and *)
(* that have neither run nor been cleared.  steps counts the handler runs  *)
(* and callbacks of a behaviour; it is the exploration budget and no state *)
(* of the server.                                                          *)
(***************************************************************************)
EXTENDS Integers, Sequences, FiniteSets, TLC

\* ------------------------------------------------------------------ bounds
MaxClock == 1        \* readings of Date.now() that are told apart
MaxCreates == 1      \* room objects created in one behaviour
MaxLen == 2          \* players per room explored by Spec
MaxPending == 1      \* generation calls in flight at once
MaxSteps == 8        \* handler runs and callbacks in one explored behaviour

\* ------------------------------------------------------- program constants
MaxPlayers == 10         \* joinRoom's cap
DefaultCount == 5        \* questionCount || 5
DefaultTime == 30        \* questionTime: 30
MinCount == 1            \* Math.max(1, ...)
MaxCount == 20           \* Math.min(20, ...)
BasePoints == 10         \* basePoints
BonusScale == 10         \* ... * 10 in timeBonus
NoAnswer == -1           \* selectedAnswer of a forced answer
JsNull == -99            \* null in selectedAnswer / answerTime
JsUndefined == -98       \* undefined stored by player.selectedAnswer = answer

Allowed == {10, 15, 20, 25, 30}

Sockets == {"s1", "s2", "s3"}
Codes == {"A", "B"}
NoCode == ""

VARIABLES rooms, socketRoomMap, joined, connected, questionTimers, timeouts,
          pending, nextOid, now, out, steps

vars == <<rooms, socketRoomMap, joined, connected, questionTimers, timeouts,
          pending, nextOid, now, out, steps>>

\* ----------------------------------------------------------------- helpers
Has(d, f) == f \in DOMAIN d

\* String.prototype.toUpperCase on the room codes a client can send.
ToUpperCase(str) ==
  CASE str = "a" -> "A"
    [] str = "b" -> "B"
    [] str = "x" -> "X"
    [] OTHER -> str

\* (roomCode || '').toUpperCase()
NormCode(d) == IF Has(d, "roomCode") THEN ToUpperCase(d.roomCode) ELSE ""

\* findIndex((p) => p.id === id): first index with that id, 0 when none.
FindById(ps, id) ==
  IF \E i \in 1..Len(ps) : ps[i].id = id
  THEN CHOOSE i \in 1..Len(ps) : ps[i].id = id /\ \A j \in 1..(i - 1) : ps[j].id # id
  ELSE 0

\* find((p) => p.clientId === cid): index of the first match, 0 when none.
FindByClient(ps, cid) ==
  IF \E i \in 1..Len(ps) : ps[i].clientId = cid
  THEN CHOOSE i \in 1..Len(ps) :
         ps[i].clientId = cid /\ \A j \in 1..(i - 1) : ps[j].clientId # cid
  ELSE 0

\* Array.prototype.splice(idx, 1)
Splice(ps, idx) == [i \in 1..(Len(ps) - 1) |-> IF i < idx THEN ps[i] ELSE ps[i + 1]]

\* socket.join(rc): socket.rooms is a Set, insertion order kept.
SocketJoin(s, rc) ==
  IF \E i \in 1..Len(joined[s]) : joined[s][i] = rc
  THEN joined
  ELSE [joined EXCEPT ![s] = Append(@, rc)]

\* socket.leave(rc)
SocketLeave(s, rc) ==
  [joined EXCEPT ![s] = SelectSeq(@, LAMBDA c : c # rc)]

\* socketRoomMap.get(socket.id) || Array.from(socket.rooms)[1], upper-cased
CallerRoom(s) ==
  ToUpperCase(IF socketRoomMap[s] # NoCode THEN socketRoomMap[s]
              ELSE IF Len(joined[s]) > 0 THEN joined[s][1]
              ELSE "")

\* `${socket.id}-${Date.now()}`
SynthClientId(s, t) == s \o "-" \o ToString(t)

\* clientId || `${socket.id}-${Date.now()}`
StableClientId(s, d, t) ==
  IF Has(d, "clientId") /\ d.clientId # "" THEN d.clientId ELSE SynthClientId(s, t)

UsesClock(d) == ~(Has(d, "clientId") /\ d.clientId # "")

\* playerName || 'Player'
NameOf(d) == IF Has(d, "playerName") /\ d.playerName # "" THEN d.playerName ELSE "Player"

NewPlayer(id, cid, name) ==
  [id |-> id, clientId |-> cid, name |-> name, score |-> 0, answered |-> FALSE,
   selectedAnswer |-> JsNull, answerTime |-> JsNull, roundPoints |-> 0,
   ready |-> FALSE]

\* Number(questionCount || 5)
CountOf(d) ==
  IF Has(d, "questionCount") /\ d.questionCount # 0 THEN d.questionCount ELSE DefaultCount

NewRoom(s, d, rc, t, oid) ==
  [oid |-> oid, code |-> rc, adminId |-> s,
   players |-> <<NewPlayer(s, StableClientId(s, d, t), NameOf(d))>>,
   status |-> "waiting", currentQuestion |-> 0, totalQuestions |-> CountOf(d),
   questions |-> <<>>,
   topic |-> IF Has(d, "topic") /\ d.topic # "" THEN d.topic ELSE "General Knowledge",
   difficulty |-> IF Has(d, "difficulty") /\ d.difficulty # "" THEN d.difficulty ELSE "medium",
   questionCount |-> CountOf(d), questionTime |-> DefaultTime,
   questionsReady |-> FALSE, rematch |-> FALSE]

\* A lobby test that lets every finished room count as a lobby.
CanJoin_WhenFinished(room) ==
  room.status = "waiting" \/ room.status = "finished"

\* room.status === 'waiting' || (room.status === 'finished' && room.rematch === true)
CanJoin(room) ==
  room.status = "waiting" \/ (room.status = "finished" /\ room.rematch = TRUE)

Reply(s, ev) == [kind |-> "socket", to |-> s, ev |-> ev, msg |-> ""]
Publish(rc, ev) == [kind |-> "room", to |-> rc, ev |-> ev, msg |-> ""]

\* socket.emit('error', { message })
Error(s, msg) == [kind |-> "socket", to |-> s, ev |-> "error", msg |-> msg]

RoomsWith(rc, room) == [c \in DOMAIN rooms \cup {rc} |-> IF c = rc THEN room ELSE rooms[c]]
RoomsWithout(rc) == [c \in DOMAIN rooms \ {rc} |-> rooms[c]]

NoTimer == [state |-> "none", oid |-> 0, dur |-> 0]

\* clearQuestionTimer(roomCode): a timer that has fired is still in the map
\* and is removed here as well.
ClearQuestionTimer(timers, rc) == [timers EXCEPT ![rc] = NoTimer]

\* startQuestionTimer(roomCode, room): supersedes the timer of the code.
StartQuestionTimer(timers, rc, room) ==
  [ClearQuestionTimer(timers, rc) EXCEPT
     ![rc] = [state |-> "armed", oid |-> room.oid, dur |-> room.questionTime]]

\* The callback a handle of the map stands for.
Timeout(rc, h) == [code |-> rc, oid |-> h.oid, dur |-> h.dur]

\* clearTimeout(timer): the callback of the handle is unscheduled; a handle
\* whose callback has run is left as it is.
ClearTimeout(heap, rc, h) ==
  IF h.state = "armed" /\ \E i \in 1..Len(heap) : heap[i] = Timeout(rc, h)
  THEN LET k == CHOOSE i \in 1..Len(heap) :
                  heap[i] = Timeout(rc, h) /\ \A j \in 1..(i - 1) : heap[j] # Timeout(rc, h)
       IN [j \in 1..(Len(heap) - 1) |-> IF j < k THEN heap[j] ELSE heap[j + 1]]
  ELSE heap

\* clearQuestionTimer that deletes the handle without clearTimeout.
ClearedTimeouts_Nothing(heap, timers, rc) == heap

\* The scheduled callbacks after clearQuestionTimer(roomCode).
ClearedTimeouts(heap, timers, rc) == ClearTimeout(heap, rc, timers[rc])

\* startQuestionTimer that schedules its callback without clearing first.
StartedTimeouts_NoClear(heap, timers, rc, room) ==
  Append(heap, [code |-> rc, oid |-> room.oid, dur |-> room.questionTime])

\* The scheduled callbacks after startQuestionTimer(roomCode, room).
StartedTimeouts(heap, timers, rc, room) ==
  Append(ClearedTimeouts(heap, timers, rc),
         [code |-> rc, oid |-> room.oid, dur |-> room.questionTime])

\* -------------------------------------------------------------------- Init
Init ==
  /\ rooms = [c \in {} |-> 0]
  /\ socketRoomMap = [s \in Sockets |-> NoCode]
  /\ joined = [s \in Sockets |-> <<>>]
  /\ connected = Sockets
  /\ questionTimers = [c \in Codes |-> NoTimer]
  /\ timeouts = <<>>
  /\ pending = <<>>
  /\ nextOid = 1
  /\ now = 0
  /\ out = <<>>
  /\ steps = 0

\* ----------------------------------------------------------------- actions
\* socket.on('createRoom'): rc is the code Math.random() produced on the
\* iteration that left the do/while loop, t the reading of Date.now().
CreateRoom(s, d, rc, t) ==
  /\ s \in connected
  /\ rc \notin DOMAIN rooms
  /\ t >= now
  /\ rooms' = RoomsWith(rc, NewRoom(s, d, rc, t, nextOid))
  /\ nextOid' = nextOid + 1
  /\ joined' = SocketJoin(s, rc)
  /\ socketRoomMap' = [socketRoomMap EXCEPT ![s] = rc]
  /\ now' = IF UsesClock(d) THEN t ELSE now
  /\ out' = <<Reply(s, "roomCreated")>>
  /\ UNCHANGED <<connected, questionTimers, timeouts, pending>>

\* A rebind that builds the Player anew instead of updating it in place.
Rebound_Fresh(ps, idx, s) ==
  [ps EXCEPT ![idx] = NewPlayer(s, @.clientId, @.name)]

\* A rebind that lets the Player answer the current question again.
Rebound_ClearsAnswer(ps, idx, s) ==
  [ps EXCEPT ![idx].id = s, ![idx].answered = FALSE]

\* existing.id = socket.id
Rebound(ps, idx, s) == [ps EXCEPT ![idx].id = s]

\* socket.on('joinRoom')
JoinRoom(s, d, t) ==
  LET rc == NormCode(d) IN
  /\ s \in connected
  /\ t >= now
  /\ IF rc \notin DOMAIN rooms
     THEN /\ out' = <<Error(s, "Room not found")>>
          /\ UNCHANGED <<rooms, socketRoomMap, joined, now>>
     ELSE LET room == rooms[rc]
              idx == IF Has(d, "clientId") /\ d.clientId # ""
                     THEN FindByClient(room.players, d.clientId) ELSE 0
          IN
          IF ~CanJoin(room)
          THEN IF idx # 0
               THEN /\ rooms' = [rooms EXCEPT ![rc].players = Rebound(@, idx, s)]
                    /\ joined' = SocketJoin(s, rc)
                    /\ socketRoomMap' = [socketRoomMap EXCEPT ![s] = rc]
                    /\ out' = <<Publish(rc, "roomUpdated"), Reply(s, "roomJoined")>>
                    /\ UNCHANGED now
               ELSE /\ out' = <<Error(s, "Game has already started")>>
                    /\ UNCHANGED <<rooms, socketRoomMap, joined, now>>
          ELSE IF Len(room.players) >= MaxPlayers
          THEN /\ out' = <<Error(s, "Room is full")>>
               /\ UNCHANGED <<rooms, socketRoomMap, joined, now>>
          ELSE /\ rooms' = [rooms EXCEPT ![rc].players =
                              Append(@, NewPlayer(s, StableClientId(s, d, t), NameOf(d)))]
               /\ joined' = SocketJoin(s, rc)
               /\ socketRoomMap' = [socketRoomMap EXCEPT ![s] = rc]
               /\ now' = IF UsesClock(d) THEN t ELSE now
               /\ out' = <<Publish(rc, "roomUpdated"), Reply(s, "roomJoined")>>
  /\ UNCHANGED <<connected, questionTimers, timeouts, pending, nextOid>>

\* socket.on('rejoinRoom')
RejoinRoom(s, d) ==
  LET rc == NormCode(d) IN
  /\ s \in connected
  /\ IF rc = "" \/ ~(Has(d, "clientId") /\ d.clientId # "")
     THEN /\ out' = <<Error(s, "Invalid rejoin payload")>>
          /\ UNCHANGED <<rooms, socketRoomMap, joined>>
     ELSE IF rc \notin DOMAIN rooms
     THEN /\ out' = <<Error(s, "Room not found")>>
          /\ UNCHANGED <<rooms, socketRoomMap, joined>>
     ELSE LET room == rooms[rc]
              idx == FindByClient(room.players, d.clientId)
          IN
          IF idx = 0
          THEN IF ~CanJoin(room)
               THEN /\ out' = <<Error(s, "Game already in progress")>>
                    /\ UNCHANGED <<rooms, socketRoomMap, joined>>
               ELSE /\ rooms' = [rooms EXCEPT ![rc].players =
                                   Append(@, NewPlayer(s, d.clientId, NameOf(d)))]
                    /\ joined' = SocketJoin(s, rc)
                    /\ socketRoomMap' = [socketRoomMap EXCEPT ![s] = rc]
                    /\ out' = <<Publish(rc, "roomUpdated"), Reply(s, "roomJoined")>>
          ELSE /\ rooms' = [rooms EXCEPT ![rc].players = Rebound(@, idx, s)]
               /\ joined' = SocketJoin(s, rc)
               /\ socketRoomMap' = [socketRoomMap EXCEPT ![s] = rc]
               /\ out' = <<Publish(rc, "roomUpdated"), Reply(s, "roomJoined")>>
  /\ UNCHANGED <<connected, questionTimers, timeouts, pending, nextOid, now>>

\* RemovePlayer promoting the latest-joined survivor instead of the earliest.
RemovePlayer_PromoteLast(s, rc) ==
  IF rc \in DOMAIN rooms
  THEN LET room == rooms[rc]
           idx == FindById(room.players, s)
       IN
       IF idx # 0
       THEN LET rest == Splice(room.players, idx) IN
            IF Len(rest) = 0
            THEN /\ rooms' = RoomsWithout(rc)
                 /\ questionTimers' = ClearQuestionTimer(questionTimers, rc)
                 /\ timeouts' = ClearedTimeouts(timeouts, questionTimers, rc)
                 /\ out' = <<>>
            ELSE /\ rooms' = [rooms EXCEPT
                                ![rc].players = rest,
                                ![rc].adminId = IF room.adminId = s THEN rest[Len(rest)].id ELSE @]
                 /\ out' = <<Publish(rc, "roomUpdated")>>
                 /\ UNCHANGED <<questionTimers, timeouts>>
       ELSE /\ out' = <<>>
            /\ UNCHANGED <<rooms, questionTimers, timeouts>>
  ELSE /\ out' = <<>>
       /\ UNCHANGED <<rooms, questionTimers, timeouts>>

\* RemovePlayer without the clearQuestionTimer call on the last removal.
RemovePlayer_KeepTimer(s, rc) ==
  IF rc \in DOMAIN rooms
  THEN LET room == rooms[rc]
           idx == FindById(room.players, s)
       IN
       IF idx # 0
       THEN LET rest == Splice(room.players, idx) IN
            IF Len(rest) = 0
            THEN /\ rooms' = RoomsWithout(rc)
                 /\ out' = <<>>
                 /\ UNCHANGED <<questionTimers, timeouts>>
            ELSE /\ rooms' = [rooms EXCEPT
                                ![rc].players = rest,
                                ![rc].adminId = IF room.adminId = s THEN rest[1].id ELSE @]
                 /\ out' = <<Publish(rc, "roomUpdated")>>
                 /\ UNCHANGED <<questionTimers, timeouts>>
       ELSE /\ out' = <<>>
            /\ UNCHANGED <<rooms, questionTimers, timeouts>>
  ELSE /\ out' = <<>>
       /\ UNCHANGED <<rooms, questionTimers, timeouts>>

\* The part leaveRoom and disconnect share: remove the caller's Player from
\* the room its socketRoomMap entry names.
RemovePlayer(s, rc) ==
  IF rc \in DOMAIN rooms
  THEN LET room == rooms[rc]
           idx == FindById(room.players, s)
       IN
       IF idx # 0
       THEN LET rest == Splice(room.players, idx) IN
            IF Len(rest) = 0
            THEN /\ rooms' = RoomsWithout(rc)
                 /\ questionTimers' = ClearQuestionTimer(questionTimers, rc)
                 /\ timeouts' = ClearedTimeouts(timeouts, questionTimers, rc)
                 /\ out' = <<>>
            ELSE /\ rooms' = [rooms EXCEPT
                                ![rc].players = rest,
                                ![rc].adminId = IF room.adminId = s THEN rest[1].id ELSE @]
                 /\ out' = <<Publish(rc, "roomUpdated")>>
                 /\ UNCHANGED <<questionTimers, timeouts>>
       ELSE /\ out' = <<>>
            /\ UNCHANGED <<rooms, questionTimers, timeouts>>
  ELSE /\ out' = <<>>
       /\ UNCHANGED <<rooms, questionTimers, timeouts>>

\* socket.on('leaveRoom')
LeaveRoom(s) ==
  /\ s \in connected
  /\ IF socketRoomMap[s] = NoCode
     THEN /\ out' = <<>>
          /\ UNCHANGED <<rooms, socketRoomMap, joined, questionTimers, timeouts>>
     ELSE /\ joined' = SocketLeave(s, socketRoomMap[s])
          /\ socketRoomMap' = [socketRoomMap EXCEPT ![s] = NoCode]
          /\ RemovePlayer(s, socketRoomMap[s])
  /\ UNCHANGED <<connected, pending, nextOid, now>>

\* socket.on('disconnect'): the transport has already emptied socket.rooms,
\* and the connection id is never used again.
Disconnect(s) ==
  /\ s \in connected
  /\ connected' = connected \ {s}
  /\ joined' = [joined EXCEPT ![s] = <<>>]
  /\ IF socketRoomMap[s] = NoCode
     THEN /\ out' = <<>>
          /\ UNCHANGED <<rooms, socketRoomMap, questionTimers, timeouts>>
     ELSE /\ socketRoomMap' = [socketRoomMap EXCEPT ![s] = NoCode]
          /\ RemovePlayer(s, socketRoomMap[s])
  /\ UNCHANGED <<pending, nextOid, now>>

\* typeof questionCount === 'number' ? Math.max(1, Math.min(20, questionCount))
ClampCount(n) ==
  LET lo == IF n < MaxCount THEN n ELSE MaxCount
  IN IF lo > MinCount THEN lo ELSE MinCount

\* allowed.includes(questionTime) ? questionTime : 30
ClampTime(n) == IF n \in Allowed THEN n ELSE DefaultTime

\* Settings that invalidate the questions only when the payload has a field.
ApplySettings_KeepIfEmpty(room, d) ==
  [room EXCEPT
     !.topic = IF Has(d, "topic") THEN d.topic ELSE @,
     !.difficulty = IF Has(d, "difficulty") THEN d.difficulty ELSE @,
     !.questionCount = IF Has(d, "questionCount") THEN ClampCount(d.questionCount) ELSE @,
     !.totalQuestions = IF Has(d, "questionCount") THEN ClampCount(d.questionCount) ELSE @,
     !.questionTime = IF Has(d, "questionTime") THEN ClampTime(d.questionTime) ELSE @,
     !.questions = IF DOMAIN d = {} THEN @ ELSE <<>>,
     !.questionsReady = IF DOMAIN d = {} THEN @ ELSE FALSE]

ApplySettings(room, d) ==
  [room EXCEPT
     !.topic = IF Has(d, "topic") THEN d.topic ELSE @,
     !.difficulty = IF Has(d, "difficulty") THEN d.difficulty ELSE @,
     !.questionCount = IF Has(d, "questionCount") THEN ClampCount(d.questionCount) ELSE @,
     !.totalQuestions = IF Has(d, "questionCount") THEN ClampCount(d.questionCount) ELSE @,
     !.questionTime = IF Has(d, "questionTime") THEN ClampTime(d.questionTime) ELSE @,
     !.questions = <<>>,
     !.questionsReady = FALSE]

\* updateSettings without the test of the caller against adminId.
UpdateSettings_AnyCaller(s, d) ==
  LET rc == CallerRoom(s) IN
  /\ s \in connected
  /\ IF rc \notin DOMAIN rooms \/ ~CanJoin(rooms[rc])
     THEN /\ out' = <<>>
          /\ UNCHANGED rooms
     ELSE /\ rooms' = [rooms EXCEPT ![rc] = ApplySettings(@, d)]
          /\ out' = <<Publish(rc, "roomUpdated")>>
  /\ UNCHANGED <<socketRoomMap, joined, connected, questionTimers, timeouts, pending, nextOid, now>>

\* socket.on('updateSettings')
UpdateSettings(s, d) ==
  LET rc == CallerRoom(s) IN
  /\ s \in connected
  /\ IF rc \notin DOMAIN rooms \/ rooms[rc].adminId # s \/ ~CanJoin(rooms[rc])
     THEN /\ out' = <<>>
          /\ UNCHANGED rooms
     ELSE /\ rooms' = [rooms EXCEPT ![rc] = ApplySettings(@, d)]
          /\ out' = <<Publish(rc, "roomUpdated")>>
  /\ UNCHANGED <<socketRoomMap, joined, connected, questionTimers, timeouts, pending, nextOid, now>>

\* socket.on('generateQuestions') up to the await: the call to the
\* generator is issued with the settings the room has now.
GenerateQuestions(s) ==
  LET rc == CallerRoom(s) IN
  /\ s \in connected
  /\ IF rc \notin DOMAIN rooms \/ rooms[rc].adminId # s \/ ~CanJoin(rooms[rc])
     THEN /\ out' = <<>>
          /\ UNCHANGED pending
     ELSE /\ pending' = Append(pending, [oid |-> rooms[rc].oid, code |-> rc, sock |-> s,
                                         count |-> rooms[rc].questionCount])
          /\ out' = <<Publish(rc, "generatingQuestions")>>
  /\ UNCHANGED <<rooms, socketRoomMap, joined, connected, questionTimers, timeouts, nextOid, now>>

RemoveAt(seq, i) == [j \in 1..(Len(seq) - 1) |-> IF j < i THEN seq[j] ELSE seq[j + 1]]

\* The room object a closure holds is the stored one only while the store
\* still maps its code to that object.
Stored(code, oid) == code \in DOMAIN rooms /\ rooms[code].oid = oid

\* generateQuestions resolves with qs: the continuation after the await
\* writes to the room object it closed over and publishes to its code.
GenSucceed(i, qs) ==
  /\ i \in 1..Len(pending)
  /\ LET p == pending[i] IN
     /\ rooms' = IF Stored(p.code, p.oid)
                 THEN [rooms EXCEPT ![p.code].questions = qs,
                                    ![p.code].questionsReady = TRUE]
                 ELSE rooms
     /\ out' = <<Publish(p.code, "questionsGenerated"), Publish(p.code, "roomUpdated")>>
  /\ pending' = RemoveAt(pending, i)
  /\ UNCHANGED <<socketRoomMap, joined, connected, questionTimers, timeouts, nextOid, now>>

\* A catch block that also drops the questions the room had.
GenFail_DropsQuestions(i) ==
  /\ i \in 1..Len(pending)
  /\ rooms' = IF Stored(pending[i].code, pending[i].oid)
              THEN [rooms EXCEPT ![pending[i].code].questions = <<>>,
                                 ![pending[i].code].questionsReady = FALSE]
              ELSE rooms
  /\ out' = <<Error(pending[i].sock, "Failed to generate questions")>>
  /\ pending' = RemoveAt(pending, i)
  /\ UNCHANGED <<socketRoomMap, joined, connected, questionTimers, timeouts, nextOid, now>>

\* generateQuestions rejects: the catch block replies to the caller only.
GenFail(i) ==
  /\ i \in 1..Len(pending)
  /\ out' = <<Error(pending[i].sock, "Failed to generate questions")>>
  /\ pending' = RemoveAt(pending, i)
  /\ UNCHANGED <<rooms, socketRoomMap, joined, connected, questionTimers, timeouts, nextOid, now>>

\* A reset for a new match that keeps the score.
ResetForMatch_KeepScore(p) ==
  [p EXCEPT !.answered = FALSE, !.selectedAnswer = JsNull,
            !.answerTime = JsNull, !.roundPoints = 0, !.ready = FALSE]

\* forEach in startQuiz: score, answered, selectedAnswer, answerTime,
\* roundPoints and ready of a Player are reset.
ResetForMatch(p) ==
  [p EXCEPT !.score = 0, !.answered = FALSE, !.selectedAnswer = JsNull,
            !.answerTime = JsNull, !.roundPoints = 0, !.ready = FALSE]

\* A reset for the next question that also clears the score.
ResetForQuestion_ClearsScore(p) ==
  [p EXCEPT !.score = 0, !.answered = FALSE, !.selectedAnswer = JsNull,
            !.answerTime = JsNull, !.roundPoints = 0]

\* forEach in nextQuestion: answered, selectedAnswer, answerTime and
\* roundPoints of a Player are reset.
ResetForQuestion(p) ==
  [p EXCEPT !.answered = FALSE, !.selectedAnswer = JsNull,
            !.answerTime = JsNull, !.roundPoints = 0]

\* startQuiz guards that test the question list but not questionsReady.
StartQuizError_IgnoreReady(s, rc) ==
  IF rc \notin DOMAIN rooms \/ rooms[rc].adminId # s
  THEN "Not authorized"
  ELSE IF Len(rooms[rc].questions) = 0
  THEN "Generate questions first"
  ELSE IF /\ rooms[rc].status = "finished"
          /\ rooms[rc].rematch = TRUE
          /\ \E i \in 1..Len(rooms[rc].players) : rooms[rc].players[i].ready # TRUE
  THEN "All players must press Play Again to be ready"
  ELSE ""

\* startQuiz guards that are content with one Player being ready.
StartQuizError_SomeoneReady(s, rc) ==
  IF rc \notin DOMAIN rooms \/ rooms[rc].adminId # s
  THEN "Not authorized"
  ELSE IF Len(rooms[rc].questions) = 0 \/ ~rooms[rc].questionsReady
  THEN "Generate questions first"
  ELSE IF /\ rooms[rc].status = "finished"
          /\ rooms[rc].rematch = TRUE
          /\ \A i \in 1..Len(rooms[rc].players) : rooms[rc].players[i].ready # TRUE
  THEN "All players must press Play Again to be ready"
  ELSE ""

\* The guards of startQuiz in the order the handler tests them: the message
\* of the error the caller gets, "" when the quiz starts.
StartQuizError(s, rc) ==
  IF rc \notin DOMAIN rooms \/ rooms[rc].adminId # s
  THEN "Not authorized"
  ELSE IF Len(rooms[rc].questions) = 0 \/ ~rooms[rc].questionsReady
  THEN "Generate questions first"
  ELSE IF /\ rooms[rc].status = "finished"
          /\ rooms[rc].rematch = TRUE
          /\ \E i \in 1..Len(rooms[rc].players) : rooms[rc].players[i].ready # TRUE
  THEN "All players must press Play Again to be ready"
  ELSE ""

\* socket.on('startQuiz')
StartQuiz(s) ==
  LET rc == CallerRoom(s) IN
  /\ s \in connected
  /\ IF StartQuizError(s, rc) # ""
     THEN /\ out' = <<Error(s, StartQuizError(s, rc))>>
          /\ UNCHANGED <<rooms, questionTimers, timeouts>>
     ELSE LET room == [rooms[rc] EXCEPT
                         !.players = [i \in 1..Len(@) |-> ResetForMatch(@[i])],
                         !.rematch = FALSE, !.status = "quiz", !.currentQuestion = 0]
          IN
          /\ rooms' = [rooms EXCEPT ![rc] = room]
          /\ questionTimers' = StartQuestionTimer(questionTimers, rc, room)
          /\ timeouts' = StartedTimeouts(timeouts, questionTimers, rc, room)
          /\ out' = <<Publish(rc, "quizStarted")>>
  /\ UNCHANGED <<socketRoomMap, joined, connected, pending, nextOid, now>>

\* Number(timeRemaining || 0)
TimeRemaining(d) == IF Has(d, "timeRemaining") THEN d.timeRemaining ELSE 0

\* A bonus computed from the time elapsed instead of the time remaining.
TimeBonus_Elapsed(tr, maxTime) == ((maxTime - tr) * BonusScale) \div maxTime

\* Math.floor((Number(timeRemaining || 0) / maxTime) * 10)
TimeBonus(tr, maxTime) == (tr * BonusScale) \div maxTime

\* basePoints + timeBonus
TotalPoints(tr, maxTime) == BasePoints + TimeBonus(tr, maxTime)

AnswerOf(d) == IF Has(d, "answer") THEN d.answer ELSE JsUndefined

AllAnswered(ps) == \A i \in 1..Len(ps) : ps[i].answered

\* selectAnswer that charges the base points for a wrong answer.
Answered_PenaliseWrong(room, idx, d) ==
  LET maxTime == room.questionTime
      total == TotalPoints(TimeRemaining(d), maxTime)
      isCorrect == AnswerOf(d) = room.questions[room.currentQuestion + 1]
  IN [room EXCEPT
        !.players[idx].selectedAnswer = AnswerOf(d),
        !.players[idx].answerTime = maxTime - TimeRemaining(d),
        !.players[idx].answered = TRUE,
        !.players[idx].roundPoints = IF isCorrect THEN total ELSE 0,
        !.players[idx].score = IF isCorrect THEN @ + total ELSE @ - BasePoints]

\* selectAnswer on the Player at idx, the question at currentQuestion exists.
Answered(room, idx, d) ==
  LET maxTime == room.questionTime
      total == TotalPoints(TimeRemaining(d), maxTime)
      isCorrect == AnswerOf(d) = room.questions[room.currentQuestion + 1]
  IN [room EXCEPT
        !.players[idx].selectedAnswer = AnswerOf(d),
        !.players[idx].answerTime = maxTime - TimeRemaining(d),
        !.players[idx].answered = TRUE,
        !.players[idx].roundPoints = IF isCorrect THEN total ELSE 0,
        !.players[idx].score = IF isCorrect THEN @ + total ELSE @]

\* An exception that no handler catches ends the process: the store, the
\* maps, the timers and the calls in flight are gone and every connection is
\* closed.  Nothing installs an uncaughtException handler.
ProcessExit ==
  /\ rooms' = [c \in {} |-> 0]
  /\ socketRoomMap' = [s \in Sockets |-> NoCode]
  /\ joined' = [s \in Sockets |-> <<>>]
  /\ connected' = {}
  /\ questionTimers' = [c \in Codes |-> NoTimer]
  /\ timeouts' = <<>>
  /\ pending' = <<>>
  /\ out' = <<>>

\* socket.on('selectAnswer'): when room.questions[room.currentQuestion] is
\* undefined, reading its correctAnswer throws a TypeError outside any try.
SelectAnswer(s, d) ==
  LET rc == CallerRoom(s)
      idx == IF rc \in DOMAIN rooms THEN FindById(rooms[rc].players, s) ELSE 0
  IN
  /\ s \in connected
  /\ IF rc \notin DOMAIN rooms \/ rooms[rc].status # "quiz" \/ idx = 0
        \/ rooms[rc].players[idx].answered
     THEN /\ out' = <<>>
          /\ UNCHANGED <<rooms, questionTimers, timeouts>>
          /\ UNCHANGED <<socketRoomMap, joined, connected, pending>>
     ELSE IF rooms[rc].currentQuestion >= Len(rooms[rc].questions)
     THEN ProcessExit
     ELSE LET room == Answered(rooms[rc], idx, d) IN
          /\ rooms' = [rooms EXCEPT ![rc] = room]
          /\ IF AllAnswered(room.players)
             THEN /\ questionTimers' = ClearQuestionTimer(questionTimers, rc)
                  /\ timeouts' = ClearedTimeouts(timeouts, questionTimers, rc)
                  /\ out' = <<Publish(rc, "playerSubmitted"), Publish(rc, "allAnswered"),
                              Publish(rc, "roomUpdated")>>
             ELSE /\ out' = <<Publish(rc, "playerSubmitted"), Publish(rc, "roomUpdated")>>
                  /\ UNCHANGED <<questionTimers, timeouts>>
          /\ UNCHANGED <<socketRoomMap, joined, connected, pending>>
  /\ UNCHANGED <<nextOid, now>>

\* socket.on('nextQuestion')
NextQuestion(s) ==
  LET rc == CallerRoom(s) IN
  /\ s \in connected
  /\ IF rc \notin DOMAIN rooms \/ rooms[rc].adminId # s \/ rooms[rc].status # "quiz"
     THEN /\ out' = <<>>
          /\ UNCHANGED <<rooms, questionTimers, timeouts>>
     ELSE LET moved == [rooms[rc] EXCEPT
                          !.players = [i \in 1..Len(@) |-> ResetForQuestion(@[i])],
                          !.currentQuestion = @ + 1]
          IN
          IF moved.currentQuestion >= Len(moved.questions)
          THEN /\ rooms' = [rooms EXCEPT ![rc] = [moved EXCEPT !.status = "finished"]]
               /\ out' = <<Publish(rc, "quizFinished")>>
               /\ UNCHANGED <<questionTimers, timeouts>>
          ELSE /\ rooms' = [rooms EXCEPT ![rc] = moved]
               /\ questionTimers' = StartQuestionTimer(questionTimers, rc, moved)
               /\ timeouts' = StartedTimeouts(timeouts, questionTimers, rc, moved)
               /\ out' = <<Publish(rc, "questionUpdated")>>
  /\ UNCHANGED <<socketRoomMap, joined, connected, pending, nextOid, now>>

\* A playAgain that marks every Player of the room ready.
PlayAgain_EveryoneReady(s) ==
  LET rc == CallerRoom(s)
      idx == IF rc \in DOMAIN rooms THEN FindById(rooms[rc].players, s) ELSE 0
  IN
  /\ s \in connected
  /\ IF idx = 0
     THEN /\ out' = <<>>
          /\ UNCHANGED rooms
     ELSE /\ rooms' = [rooms EXCEPT ![rc].rematch = TRUE,
                                    ![rc].players = [i \in 1..Len(@) |-> [@[i] EXCEPT !.ready = TRUE]],
                                    ![rc].questionsReady = FALSE]
          /\ out' = <<Publish(rc, "roomUpdated"), Reply(s, "goToLobby")>>
  /\ UNCHANGED <<socketRoomMap, joined, connected, questionTimers, timeouts, pending, nextOid, now>>

\* socket.on('playAgain')
PlayAgain(s) ==
  LET rc == CallerRoom(s)
      idx == IF rc \in DOMAIN rooms THEN FindById(rooms[rc].players, s) ELSE 0
  IN
  /\ s \in connected
  /\ IF idx = 0
     THEN /\ out' = <<>>
          /\ UNCHANGED rooms
     ELSE /\ rooms' = [rooms EXCEPT ![rc].rematch = TRUE,
                                    ![rc].players[idx].ready = TRUE,
                                    ![rc].questionsReady = FALSE]
          /\ out' = <<Publish(rc, "roomUpdated"), Reply(s, "goToLobby")>>
  /\ UNCHANGED <<socketRoomMap, joined, connected, questionTimers, timeouts, pending, nextOid, now>>

\* An expiry that overwrites the answer of every Player.
ForceAnswer_Everyone(p) ==
  [p EXCEPT !.answered = TRUE, !.selectedAnswer = NoAnswer, !.roundPoints = 0]

\* if (!player.answered) { answered = true; selectedAnswer = -1; roundPoints = 0 }
ForceAnswer(p) ==
  IF p.answered THEN p
  ELSE [p EXCEPT !.answered = TRUE, !.selectedAnswer = NoAnswer, !.roundPoints = 0]

\* The callback as setInterval would run it: it stays scheduled.
TimerExpire_Repeating(i) ==
  /\ i \in 1..Len(timeouts)
  /\ LET t == timeouts[i] IN
     /\ rooms' = IF Stored(t.code, t.oid)
                 THEN [rooms EXCEPT
                         ![t.code].players = [k \in 1..Len(@) |-> ForceAnswer(@[k])]]
                 ELSE rooms
     /\ out' = <<Publish(t.code, "timeUp"), Publish(t.code, "allAnswered")>>
  /\ UNCHANGED <<questionTimers, timeouts>>
  /\ UNCHANGED <<socketRoomMap, joined, connected, pending, nextOid, now>>

\* The setTimeout callback of startQuestionTimer, for the i-th scheduled
\* callback: it writes to the room object it closed over and publishes to
\* the code it was started for; its handle, when the map still holds it,
\* stays in questionTimers.
TimerExpire(i) ==
  /\ i \in 1..Len(timeouts)
  /\ LET t == timeouts[i]
         h == [state |-> "armed", oid |-> t.oid, dur |-> t.dur]
     IN
     /\ rooms' = IF Stored(t.code, t.oid)
                 THEN [rooms EXCEPT
                         ![t.code].players = [k \in 1..Len(@) |-> ForceAnswer(@[k])]]
                 ELSE rooms
     /\ questionTimers' = IF questionTimers[t.code] = h
                          THEN [questionTimers EXCEPT ![t.code].state = "fired"]
                          ELSE questionTimers
     /\ out' = <<Publish(t.code, "timeUp"), Publish(t.code, "allAnswered")>>
  /\ timeouts' = RemoveAt(timeouts, i)
  /\ UNCHANGED <<socketRoomMap, joined, connected, pending, nextOid, now>>

\* ------------------------------------------------------------------ inputs
\* The generator's answer to a call for count questions: question i has
\* correctAnswer i % 4.
GenOutputs(count) == {[i \in 1..count |-> i % 4]}

Times == now..(IF now < MaxClock THEN now + 1 ELSE now)

\* Exploration limit on the size of the room a join is aimed at.
Small(d, n) == NormCode(d) \in DOMAIN rooms => Len(rooms[NormCode(d)].players) < n

Tick == steps < MaxSteps /\ steps' = steps + 1

\* ---------------------------------------------- Spec: the whole lifecycle
\* One room code, two connections, every handler and both callbacks.
Callers == {"s1", "s2"}
SpecCodes == {"A"}
CreateInputs == {[clientId |-> "c1", questionCount |-> 1]}
JoinInputs == {[roomCode |-> "a", clientId |-> "c2"], [roomCode |-> "x", clientId |-> "c1"]}
RejoinInputs == {[roomCode |-> "A", clientId |-> "c1"], [roomCode |-> "A"]}
SettingsInputs == {[questionCount |-> 2], <<>>}
AnswerInputs == {[answer |-> 1, timeRemaining |-> 10]}

Step ==
  \/ \E s \in Callers, d \in CreateInputs, rc \in SpecCodes :
        nextOid <= MaxCreates /\ CreateRoom(s, d, rc, now)
  \/ \E s \in Callers, d \in JoinInputs : Small(d, MaxLen) /\ JoinRoom(s, d, now)
  \/ \E s \in Callers, d \in RejoinInputs : Small(d, MaxLen) /\ RejoinRoom(s, d)
  \/ \E s \in Callers, d \in SettingsInputs : UpdateSettings(s, d)
  \/ \E s \in Callers : Len(pending) < MaxPending /\ GenerateQuestions(s)
  \/ \E i \in 1..Len(pending) : \E qs \in GenOutputs(pending[i].count) : GenSucceed(i, qs)
  \/ \E i \in 1..Len(pending) : GenFail(i)
  \/ \E s \in Callers : StartQuiz(s)
  \/ \E s \in Callers, d \in AnswerInputs : SelectAnswer(s, d)
  \/ \E s \in Callers : NextQuestion(s)
  \/ \E s \in Callers : PlayAgain(s)
  \/ \E i \in 1..Len(timeouts) : TimerExpire(i)
  \/ \E s \in Callers : LeaveRoom(s)
  \/ \E s \in Callers : Disconnect(s)

Next == Tick /\ Step

Spec == Init /\ [][Next]_vars

\* ------------------------------------- SpecMembers: who is in which room
\* Three connections, one room code, clientIds supplied by the clients;
\* the room stays in the lobby and every interleaving is explored.
MemberCreateInputs == {[clientId |-> "c1"]}
MemberJoinInputs == {[roomCode |-> "a", clientId |-> "c1"], [roomCode |-> "A", clientId |-> "c2"]}
MemberRejoinInputs == {[roomCode |-> "A", clientId |-> "c1"], [roomCode |-> "a", clientId |-> "c3"]}
StepMembers ==
  \/ \E s \in Sockets, d \in MemberCreateInputs, rc \in SpecCodes :
        nextOid <= MaxCreates /\ CreateRoom(s, d, rc, now)
  \/ \E s \in Sockets, d \in MemberJoinInputs :
        Small(d, MaxLen + 1) /\ JoinRoom(s, d, now)
  \/ \E s \in Sockets, d \in MemberRejoinInputs :
        Small(d, MaxLen + 1) /\ RejoinRoom(s, d)
  \/ \E s \in Sockets : LeaveRoom(s)
  \/ \E s \in Sockets : Disconnect(s)

NextMembers == UNCHANGED steps /\ StepMembers

SpecMembers == Init /\ [][NextMembers]_vars

\* ------------------------------------------- SpecCap: the size of a room
\* One connection that joins over and over, letting the server synthesize
\* its clientId, and rejoins with a clientId the room does not know.
CapCallers == {"s1"}
CapCreateInputs == {<<>>}
CapJoinInputs == {[roomCode |-> "A"]}
CapRejoinInputs == {[roomCode |-> "A", clientId |-> "c9"]}

StepCap ==
  \/ \E s \in CapCallers, d \in CapCreateInputs, rc \in SpecCodes, t \in Times :
        nextOid <= MaxCreates /\ CreateRoom(s, d, rc, t)
  \/ \E s \in CapCallers, d \in CapJoinInputs, t \in Times : JoinRoom(s, d, t)
  \/ \E s \in CapCallers, d \in CapRejoinInputs : RejoinRoom(s, d)
  \/ \E s \in CapCallers : LeaveRoom(s)

NextCap == UNCHANGED steps /\ StepCap

SpecCap == Init /\ [][NextCap]_vars

\* ------------------------------------------------ SpecScore: the scoring
\* One player, question times 30, 10 and 15, and answers that are right,
\* wrong or missing, sent early, late or without a timeRemaining.
ScoreCallers == {"s1"}
ScoreCreateInputs == {[clientId |-> "c1", questionCount |-> 2]}
ScoreSettingsInputs == {[questionTime |-> 10], [questionTime |-> 15]}
ScoreInputs == {[answer |-> 1, timeRemaining |-> 30], [answer |-> 1, timeRemaining |-> 0],
                [answer |-> 1], [answer |-> 1, timeRemaining |-> 7],
                [answer |-> 1, timeRemaining |-> 10], [answer |-> 1, timeRemaining |-> 15],
                [answer |-> 2, timeRemaining |-> 30], [timeRemaining |-> 10]}

StepScore ==
  \/ \E s \in ScoreCallers, d \in ScoreCreateInputs, rc \in SpecCodes :
        nextOid <= MaxCreates /\ CreateRoom(s, d, rc, now)
  \/ \E s \in ScoreCallers, d \in ScoreSettingsInputs : UpdateSettings(s, d)
  \/ \E s \in ScoreCallers : Len(pending) < MaxPending /\ GenerateQuestions(s)
  \/ \E i \in 1..Len(pending) : \E qs \in GenOutputs(pending[i].count) : GenSucceed(i, qs)
  \/ \E s \in ScoreCallers : StartQuiz(s)
  \/ \E s \in ScoreCallers, d \in ScoreInputs : SelectAnswer(s, d)
  \/ \E s \in ScoreCallers : NextQuestion(s)
  \/ \E i \in 1..Len(timeouts) : TimerExpire(i)

NextScore == Tick /\ StepScore

SpecScore == Init /\ [][NextScore]_vars

\* --------------------------------------------- SpecRound: question rounds
\* Two players in one room that plays matches of two questions; answers are
\* right or wrong, and the timeRemaining a client reports may lie outside
\* 0..questionTime.  Players leave, disconnect and come back during a round.
RoundCreateInputs == {[clientId |-> "c1", questionCount |-> 2]}
RoundJoinInputs == {[roomCode |-> "A", clientId |-> "c2"]}
RoundRejoinInputs == {[roomCode |-> "A", clientId |-> "c1"]}
RoundInputs == {[answer |-> 1, timeRemaining |-> 10], [answer |-> 3, timeRemaining |-> 10],
                [answer |-> 1, timeRemaining |-> -40], [answer |-> 2, timeRemaining |-> 45]}

RoundHandlers ==
  \/ \E s \in Callers, d \in RoundCreateInputs, rc \in SpecCodes :
        nextOid <= MaxCreates /\ CreateRoom(s, d, rc, now)
  \/ \E s \in Callers, d \in RoundJoinInputs : Small(d, MaxLen) /\ JoinRoom(s, d, now)
  \/ \E s \in Callers, d \in RoundRejoinInputs : Small(d, MaxLen) /\ RejoinRoom(s, d)
  \/ \E s \in Callers : Len(pending) < MaxPending /\ GenerateQuestions(s)
  \/ \E i \in 1..Len(pending) : \E qs \in GenOutputs(pending[i].count) : GenSucceed(i, qs)
  \/ \E s \in Callers : StartQuiz(s)
  \/ \E s \in Callers, d \in RoundInputs : SelectAnswer(s, d)
  \/ \E s \in Callers : NextQuestion(s)
  \/ \E s \in Callers : LeaveRoom(s)
  \/ \E s \in Callers : Disconnect(s)

\* The callback scheduled for code rc runs.
Expiry(rc) == \E i \in 1..Len(timeouts) : timeouts[i].code = rc /\ TimerExpire(i)

StepRound == RoundHandlers \/ \E rc \in Codes : Expiry(rc)

NextRound == Tick /\ StepRound

SpecRound == Init /\ [][NextRound]_vars

\* The same rounds with the event loop's guarantee: a callback that stays
\* scheduled is run.  Only the handler runs count against the budget.
FreeExpiry(rc) == UNCHANGED steps /\ Expiry(rc)

NextRoundFair ==
  \/ Tick /\ RoundHandlers
  \/ \E rc \in Codes : FreeExpiry(rc)

SpecRoundFair ==
  Init /\ [][NextRoundFair]_vars /\ \A rc \in Codes : WF_vars(FreeExpiry(rc))

\* ------------------------------------------ SpecGuards: refused requests
\* The creator and a second connection that joins again and again, up to a
\* full room; matches of one question with a rematch lobby; every handler is
\* also called by the connection, in the status and on the room that its
\* guards refuse.
GuardCreateInputs == {[clientId |-> "c1", questionCount |-> 1]}
GuardJoinInputs == {[roomCode |-> "a", clientId |-> "c2"], [roomCode |-> "x", clientId |-> "c2"]}
GuardRejoinInputs == {[roomCode |-> "A", clientId |-> "c2"], [clientId |-> "c1"]}
GuardSettingsInputs == {<<>>}
GuardAnswerInputs == {[answer |-> 1, timeRemaining |-> 5]}

\* Exploration limit: a room grows beyond MaxLen players only while nothing
\* else has been done with it.
Filling(d) ==
  NormCode(d) \in DOMAIN rooms =>
    \/ Len(rooms[NormCode(d)].players) < MaxLen
    \/ /\ rooms[NormCode(d)] = [NewRoom("s1", [clientId |-> "c1", questionCount |-> 1],
                                        NormCode(d), 0, rooms[NormCode(d)].oid)
                                  EXCEPT !.players = rooms[NormCode(d)].players]
       /\ pending = <<>>

StepGuards ==
  \/ \E d \in GuardCreateInputs, rc \in SpecCodes :
        nextOid <= MaxCreates /\ CreateRoom("s1", d, rc, now)
  \/ \E d \in GuardJoinInputs : Filling(d) /\ JoinRoom("s2", d, now)
  \/ \E d \in GuardRejoinInputs : Filling(d) /\ RejoinRoom("s2", d)
  \/ \E s \in Callers, d \in GuardSettingsInputs : UpdateSettings(s, d)
  \/ \E s \in Callers : Len(pending) < MaxPending /\ GenerateQuestions(s)
  \/ \E i \in 1..Len(pending) : \E qs \in GenOutputs(pending[i].count) : GenSucceed(i, qs)
  \/ \E s \in Callers : StartQuiz(s)
  \/ \E s \in Callers, d \in GuardAnswerInputs : SelectAnswer(s, d)
  \/ \E s \in Callers : NextQuestion(s)
  \/ \E s \in Callers : PlayAgain(s)

NextGuards == UNCHANGED steps /\ StepGuards

SpecGuards == Init /\ [][NextGuards]_vars

\* ------------------------------------------- SpecSettings: the settings
\* Rooms created with a questionCount that is absent, 0, small, too large or
\* negative, and settings changed to values inside and outside their ranges,
\* while a second connection comes and goes.
SettingsCreateInputs ==
  {[clientId |-> "c1"], [clientId |-> "c1", questionCount |-> 0],
   [clientId |-> "c1", questionCount |-> 3], [clientId |-> "c1", questionCount |-> 50],
   [clientId |-> "c1", questionCount |-> -2]}
SettingsJoinInputs == {[roomCode |-> "A", clientId |-> "c2"]}
RangeSettingsInputs ==
  {[questionCount |-> 0], [questionCount |-> 20], [questionCount |-> 21],
   [questionCount |-> -1], [questionTime |-> 10], [questionTime |-> 25],
   [questionTime |-> 12], [questionTime |-> 0],
   [questionCount |-> 7, questionTime |-> 15, topic |-> "History", difficulty |-> "hard"]}

StepSettings ==
  \/ \E s \in Callers, d \in SettingsCreateInputs, rc \in SpecCodes :
        nextOid <= MaxCreates /\ CreateRoom(s, d, rc, now)
  \/ \E s \in Callers, d \in SettingsJoinInputs : Small(d, MaxLen) /\ JoinRoom(s, d, now)
  \/ \E s \in Callers, d \in RangeSettingsInputs : UpdateSettings(s, d)
  \/ \E s \in Callers : LeaveRoom(s)

NextSettings == UNCHANGED steps /\ StepSettings

SpecSettings == Init /\ [][NextSettings]_vars

\* ------------------------------------------------------------------ claims
\* C1: no room of the store has an empty players list, and a timer is armed
\* for a code only while the room object it closed over is stored under that
\* code; so no expiry fires for a code that is absent from the store.
C1_NoEmptyRoomNoOrphanTimer ==
  /\ \A rc \in DOMAIN rooms : Len(rooms[rc].players) > 0
  /\ \A rc \in Codes :
       questionTimers[rc].state = "armed" => Stored(rc, questionTimers[rc].oid)
  /\ \A i \in 1..Len(timeouts) : Stored(timeouts[i].code, timeouts[i].oid)

\* A room was created and its last player has left or disconnected while the
\* room was in a quiz, after which neither the room nor its timer is left.
C1_Witness ==
  /\ nextOid > 1
  /\ DOMAIN rooms = {}
  /\ \A rc \in Codes : questionTimers[rc] = NoTimer
  /\ timeouts = <<>>
  /\ connected # Sockets

\* C2: the adminId of every stored room is the connection id of one of its
\* Players.
C2_AdminIsPlayer ==
  \A rc \in DOMAIN rooms :
    \E i \in 1..Len(rooms[rc].players) : rooms[rc].players[i].id = rooms[rc].adminId

\* C3: when leaveRoom or disconnect removes the Player whose connection id
\* is adminId and a Player remains, adminId is afterwards the connection id
\* of the first remaining Player and the survivors keep their order.
C3_AdminSuccession ==
  [][\A s \in Sockets :
       LET rc == socketRoomMap[s]
           ps == rooms[rc].players
           idx == FindById(ps, s)
       IN ( /\ rc \in DOMAIN rooms
            /\ rooms[rc].adminId = s
            /\ idx # 0
            /\ Len(ps) >= 2
            /\ LeaveRoom(s) \/ Disconnect(s) )
          => /\ rc \in DOMAIN rooms'
             /\ Len(rooms'[rc].players) = Len(ps) - 1
             /\ rooms'[rc].adminId = rooms'[rc].players[1].id
             /\ \A i \in 1..(Len(ps) - 1) :
                  rooms'[rc].players[i] = IF i < idx THEN ps[i] ELSE ps[i + 1]]_vars

\* The creator of the room (clientId c1, first in join order) has gone, two
\* Players remain and the first of them is the admin.
C3_Witness ==
  \E rc \in DOMAIN rooms :
    /\ out = <<Publish(rc, "roomUpdated")>>
    /\ Len(rooms[rc].players) = 2
    /\ rooms[rc].players[1].clientId = "c2"
    /\ rooms[rc].players[1].id # rooms[rc].players[2].id
    /\ rooms[rc].adminId = rooms[rc].players[1].id

\* C4: no room holds two Players with the same clientId.
C4_UniqueClientId ==
  \A rc \in DOMAIN rooms :
    \A i, j \in 1..Len(rooms[rc].players) :
      i # j => rooms[rc].players[i].clientId # rooms[rc].players[j].clientId

\* C5: no room holds two Players with the same connection id.
C5_UniqueConnectionId ==
  \A rc \in DOMAIN rooms :
    \A i, j \in 1..Len(rooms[rc].players) :
      i # j => rooms[rc].players[i].id # rooms[rc].players[j].id

\* C6: every room has at most 10 Players.
C6_AtMostTenPlayers ==
  \A rc \in DOMAIN rooms : Len(rooms[rc].players) <= MaxPlayers

\* C7: startQuiz from any caller whose room has questionsReady false changes
\* neither the rooms nor the timers and sends an error to the caller.
C7_StartQuizRejectedWhenNotReady ==
  [][\A s \in Sockets :
       ( /\ CallerRoom(s) \in DOMAIN rooms
         /\ ~rooms[CallerRoom(s)].questionsReady
         /\ StartQuiz(s) )
       => /\ rooms' = rooms
          /\ questionTimers' = questionTimers
          /\ timeouts' = timeouts
          /\ Len(out') = 1
          /\ out'[1].kind = "socket" /\ out'[1].to = s /\ out'[1].ev = "error"]_vars

\* The admin has been refused although the room still holds its questions:
\* only questionsReady was false.
C7_Witness ==
  \E s \in Sockets :
    /\ out = <<Error(s, "Generate questions first")>>
    /\ CallerRoom(s) \in DOMAIN rooms
    /\ rooms[CallerRoom(s)].adminId = s
    /\ Len(rooms[CallerRoom(s)].questions) > 0
    /\ ~rooms[CallerRoom(s)].questionsReady

AllSettingsInputs == SettingsInputs \cup ScoreSettingsInputs

\* C8: every updateSettings accepted from the admin of a lobby-like room
\* leaves questionsReady false and questions empty, whatever the payload.
\* (An accepted updateSettings publishes roomUpdated and nothing else; that
\* is tested first to tell most other steps apart at once.)
C8_SettingsInvalidateQuestions ==
  [][\A s \in Sockets :
       LET rc == CallerRoom(s) IN
       ( /\ out' = <<Publish(rc, "roomUpdated")>>
         /\ rc \in DOMAIN rooms
         /\ rooms[rc].adminId = s
         /\ CanJoin(rooms[rc])
         /\ \E d \in AllSettingsInputs : UpdateSettings(s, d) )
       => /\ rooms'[rc].questionsReady = FALSE
          /\ rooms'[rc].questions = <<>>]_vars

\* A room that has played a quiz, so had questions, is in its rematch lobby
\* with an empty question list: only updateSettings empties the list.
C8_Witness ==
  \E rc \in DOMAIN rooms :
    /\ out = <<Publish(rc, "roomUpdated")>>
    /\ rooms[rc].status = "finished"
    /\ rooms[rc].rematch
    /\ rooms[rc].questions = <<>>
    /\ ~rooms[rc].questionsReady

AllRejoinInputs == RejoinInputs \cup MemberRejoinInputs \cup CapRejoinInputs

\* The player list a rebind of clientId cid to connection s must produce:
\* the first Player with that clientId gets id s, nothing else changes.
C9_Expected(ps, cid, s) ==
  [i \in 1..Len(ps) |->
     IF ps[i].clientId = cid /\ \A j \in 1..(i - 1) : ps[j].clientId # cid
     THEN [ps[i] EXCEPT !.id = s]
     ELSE ps[i]]

\* C9: rejoinRoom with a clientId that matches a Player changes, in any
\* status, only that Player's connection id; and on every player list the
\* server reaches, two rebinds in a row give what the last one alone gives.
\* (A rejoinRoom that finds the room answers roomJoined to the caller; that
\* is tested first to tell most other steps apart at once.)
C9_RejoinRebindsInPlace ==
  /\ [][\A s \in Sockets :
          ( Len(out') = 2 /\ out'[2] = Reply(s, "roomJoined") )
          => \A d \in AllRejoinInputs :
               LET rc == NormCode(d) IN
               ( /\ Has(d, "clientId")
                 /\ rc \in DOMAIN rooms
                 /\ \E i \in 1..Len(rooms[rc].players) :
                      rooms[rc].players[i].clientId = d.clientId
                 /\ RejoinRoom(s, d) )
               => /\ rooms' = [rooms EXCEPT
                                 ![rc].players = C9_Expected(rooms[rc].players, d.clientId, s)]
                  /\ Len(rooms'[rc].players) = Len(rooms[rc].players)]_vars
  /\ [](\A rc \in DOMAIN rooms : \A i \in 1..Len(rooms[rc].players) : \A a, b \in Sockets :
          LET ps == rooms[rc].players
              cid == ps[i].clientId
          IN C9_Expected(C9_Expected(ps, cid, a), cid, b) = C9_Expected(ps, cid, b))

\* During a quiz the creator's Player (clientId c1) has been rebound to a
\* connection other than the one that created the room.
C9_Witness ==
  \E rc \in DOMAIN rooms : \E i \in 1..Len(rooms[rc].players) :
    /\ rooms[rc].status = "quiz"
    /\ rooms[rc].players[i].clientId = "c1"
    /\ rooms[rc].players[i].id # rooms[rc].adminId
    /\ rooms[rc].players[i].answered
    /\ out = <<Publish(rc, "roomUpdated"), Reply(rooms[rc].players[i].id, "roomJoined")>>

AllAnswerInputs == AnswerInputs \cup ScoreInputs

\* C10: an accepted selectAnswer awards 10 + floor(timeRemaining * 10 /
\* questionTime) for the correct answer, which is 20 with all the time left
\* and 10 with none, and 0 for any other answer; the score grows by it.
C10_ScoreMatchesReference ==
  [][\A s \in Sockets, d \in AllAnswerInputs :
       LET rc == CallerRoom(s)
           idx == FindById(rooms[rc].players, s)
           qt == rooms[rc].questionTime
           tr == IF Has(d, "timeRemaining") THEN d.timeRemaining ELSE 0
           right == Has(d, "answer")
                    /\ d.answer = rooms[rc].questions[rooms[rc].currentQuestion + 1]
           got == rooms'[rc].players[idx].roundPoints
       IN
       ( /\ rc \in DOMAIN rooms
         /\ rooms[rc].status = "quiz"
         /\ idx # 0
         /\ ~rooms[rc].players[idx].answered
         /\ rooms[rc].currentQuestion < Len(rooms[rc].questions)
         /\ SelectAnswer(s, d) )
       => /\ right => /\ (got - 10) * qt <= tr * 10
                      /\ tr * 10 < (got - 10 + 1) * qt
                      /\ tr = qt => got = 20
                      /\ tr = 0 => got = 10
          /\ ~right => got = 0
          /\ rooms'[rc].players[idx].score = rooms[rc].players[idx].score + got]_vars

\* A correct answer sent with the whole question time left has earned 20.
C10_Witness ==
  \E rc \in DOMAIN rooms : \E i \in 1..Len(rooms[rc].players) :
    /\ Len(out) > 0 /\ out[1] = Publish(rc, "playerSubmitted")
    /\ rooms[rc].players[i].answered
    /\ rooms[rc].players[i].selectedAnswer = 1
    /\ rooms[rc].players[i].roundPoints = 20
    /\ rooms[rc].questionTime = 15

AllRoundInputs == AllAnswerInputs \cup RoundInputs

\* C11: no step other than an accepted startQuiz lowers the score of a
\* Player who stays in the room, whatever timeRemaining the caller reports.
C11_ScoreNeverDecreases ==
  [][\A rc \in DOMAIN rooms \cap DOMAIN rooms' :
       ( /\ rooms'[rc].oid = rooms[rc].oid
         /\ Len(rooms'[rc].players) = Len(rooms[rc].players)
         /\ ~(\E s \in Sockets : StartQuizError(s, CallerRoom(s)) = "" /\ StartQuiz(s)) )
       => \A i \in 1..Len(rooms[rc].players) :
            rooms'[rc].players[i].score >= rooms[rc].players[i].score]_vars

\* C12: an accepted selectAnswer with an incorrect answer, and a timer
\* expiry that force-answers a Player, set that Player's roundPoints to 0,
\* keep that Player's score, and keep the score and the roundPoints of every
\* other Player of the room.
C12_WrongOrForcedScoresNothing ==
  /\ [][\A s \in Sockets :
          LET rc == CallerRoom(s) IN
          ( /\ Len(out') >= 2
            /\ out'[1] = Publish(rc, "playerSubmitted")
            /\ rc \in DOMAIN rooms )
          => LET ps == rooms[rc].players
                 idx == FindById(ps, s)
             IN \A d \in AllRoundInputs :
                  ( /\ rooms[rc].status = "quiz"
                    /\ idx # 0
                    /\ ~ps[idx].answered
                    /\ rooms[rc].currentQuestion < Len(rooms[rc].questions)
                    /\ AnswerOf(d) # rooms[rc].questions[rooms[rc].currentQuestion + 1]
                    /\ SelectAnswer(s, d) )
                  => /\ rooms'[rc].players[idx].roundPoints = 0
                     /\ rooms'[rc].players[idx].score = ps[idx].score
                     /\ \A j \in 1..Len(ps) :
                          j # idx => /\ rooms'[rc].players[j].score = ps[j].score
                                     /\ rooms'[rc].players[j].roundPoints = ps[j].roundPoints]_vars
  /\ [][\A k \in 1..Len(timeouts) :
          LET rc == timeouts[k].code IN
          ( /\ Stored(rc, timeouts[k].oid)
            /\ TimerExpire(k) )
          => \A i \in 1..Len(rooms[rc].players) :
               ~rooms[rc].players[i].answered
               => /\ rooms'[rc].players[i].roundPoints = 0
                  /\ rooms'[rc].players[i].score = rooms[rc].players[i].score
                  /\ \A j \in 1..Len(rooms[rc].players) :
                       j # i => /\ rooms'[rc].players[j].score = rooms[rc].players[j].score
                                /\ rooms'[rc].players[j].roundPoints =
                                     rooms[rc].players[j].roundPoints]_vars

\* One Player has answered correctly and holds points; the other has just
\* sent a wrong answer and holds none.
C12_Witness ==
  \E rc \in DOMAIN rooms : \E i, j \in 1..Len(rooms[rc].players) :
    /\ Len(out) >= 2 /\ out[1] = Publish(rc, "playerSubmitted")
    /\ rooms[rc].players[i].selectedAnswer = 3
    /\ rooms[rc].players[i].roundPoints = 0
    /\ rooms[rc].players[i].score = 0
    /\ rooms[rc].players[j].roundPoints > 0
    /\ rooms[rc].players[j].score > 0

\* C13: at most one callback is scheduled per room code, and it is the one
\* whose handle the map holds for that code; a startQuiz or nextQuestion that
\* starts the timer leaves exactly the callback it scheduled for the code,
\* so no callback of an earlier question is left to fire after it.
C13_OneTimerPerRoom ==
  /\ [](\A i \in 1..Len(timeouts) :
          /\ \A j \in 1..Len(timeouts) : timeouts[j].code = timeouts[i].code => j = i
          /\ questionTimers[timeouts[i].code] =
               [state |-> "armed", oid |-> timeouts[i].oid, dur |-> timeouts[i].dur])
  /\ [][\A rc \in DOMAIN rooms :
          ( \/ out' = <<Publish(rc, "quizStarted")>>
            \/ out' = <<Publish(rc, "questionUpdated")>> )
          => /\ rc \in DOMAIN rooms'
             /\ questionTimers'[rc] = [state |-> "armed", oid |-> rooms'[rc].oid,
                                       dur |-> rooms'[rc].questionTime]
             /\ SelectSeq(timeouts', LAMBDA t : t.code = rc) =
                  <<Timeout(rc, questionTimers'[rc])>>]_vars

\* nextQuestion has started the timer of the second question right after
\* startQuiz started that of the first, which had neither fired nor been
\* cleared: one callback is scheduled.
C13_Witness ==
  \E rc \in DOMAIN rooms :
    /\ out = <<Publish(rc, "questionUpdated")>>
    /\ steps = 5
    /\ rooms[rc].currentQuestion = 1
    /\ Len(timeouts) = 1
    /\ questionTimers[rc].state = "armed"

\* C14: when the timer of a room expires, every Player that had not answered
\* is answered with selectedAnswer -1 and roundPoints 0, every Player that had
\* answered is left as it was, and allAnswered is the last event published to
\* the room in that step, after timeUp.
C14_ExpiryForcesUnanswered ==
  [][\A k \in 1..Len(timeouts) :
       LET rc == timeouts[k].code IN
       ( /\ Stored(rc, timeouts[k].oid)
         /\ TimerExpire(k) )
       => /\ Len(rooms'[rc].players) = Len(rooms[rc].players)
          /\ \A i \in 1..Len(rooms[rc].players) :
               LET p == rooms[rc].players[i]
                   q == rooms'[rc].players[i]
               IN IF p.answered
                  THEN q = p
                  ELSE /\ q.answered = TRUE
                       /\ q.selectedAnswer = -1
                       /\ q.roundPoints = 0
                       /\ q.score = p.score
          /\ out' = <<Publish(rc, "timeUp"), Publish(rc, "allAnswered")>>]_vars

\* The timer has expired on a room where one Player had answered correctly
\* and the other had not answered.
C14_Witness ==
  \E rc \in DOMAIN rooms : \E i, j \in 1..Len(rooms[rc].players) :
    /\ out = <<Publish(rc, "timeUp"), Publish(rc, "allAnswered")>>
    /\ questionTimers[rc].state = "fired"
    /\ rooms[rc].players[i].answered
    /\ rooms[rc].players[i].selectedAnswer = NoAnswer
    /\ rooms[rc].players[i].answerTime = JsNull
    /\ rooms[rc].players[j].selectedAnswer = 1
    /\ rooms[rc].players[j].roundPoints > 0

\* C15: in status quiz, a selectAnswer after which every Player of the room
\* has answered publishes allAnswered and cancels the timer in the same step:
\* afterwards the map holds no handle and no callback is scheduled for the
\* room; and while no callback is scheduled for a code, no step publishes
\* timeUp to it.
C15_LastAnswerCancelsTimer ==
  /\ [][\A s \in Sockets :
          LET rc == CallerRoom(s) IN
          ( /\ Len(out') >= 2
            /\ out'[1] = Publish(rc, "playerSubmitted")
            /\ rc \in DOMAIN rooms
            /\ rooms[rc].status = "quiz"
            /\ AllAnswered(rooms'[rc].players)
            /\ \E d \in AllRoundInputs : SelectAnswer(s, d) )
          => /\ questionTimers'[rc] = NoTimer
             /\ \A i \in 1..Len(timeouts') : timeouts'[i].code # rc
             /\ out' = <<Publish(rc, "playerSubmitted"), Publish(rc, "allAnswered"),
                         Publish(rc, "roomUpdated")>>]_vars
  /\ [][\A rc \in Codes :
          (\A i \in 1..Len(timeouts) : timeouts[i].code # rc)
          => \A k \in 1..Len(out') : out'[k] # Publish(rc, "timeUp")]_vars

\* Both Players have answered while the timer was armed, the last of them
\* just now, and no timer is left.
C15_Witness ==
  \E rc \in DOMAIN rooms :
    /\ out = <<Publish(rc, "playerSubmitted"), Publish(rc, "allAnswered"),
               Publish(rc, "roomUpdated")>>
    /\ rooms[rc].status = "quiz"
    /\ Len(rooms[rc].players) = 2
    /\ AllAnswered(rooms[rc].players)
    /\ \A i \in 1..2 : rooms[rc].players[i].selectedAnswer # NoAnswer
    /\ questionTimers[rc] = NoTimer
    /\ timeouts = <<>>

\* A callback is scheduled for the code: the timer of a round is running.
C16_Running(rc) == \E i \in 1..Len(timeouts) : timeouts[i].code = rc

\* C16: allAnswered is published to a room only while the timer of a round
\* is running, and it stops that timer; a timer starts running only by an
\* accepted startQuiz or nextQuestion; a running timer stops only with an
\* allAnswered or with the destruction of the room; and a running timer
\* stops.  So a round publishes allAnswered at most once, and once unless a
\* new round or the destruction of the room cuts it short.
C16_AllAnsweredOncePerRound ==
  /\ [][\A rc \in Codes :
          (\E k \in 1..Len(out') : out'[k] = Publish(rc, "allAnswered"))
          => C16_Running(rc) /\ ~C16_Running(rc)']_vars
  /\ [][\A rc \in Codes :
          (~C16_Running(rc) /\ C16_Running(rc)')
          => \/ out' = <<Publish(rc, "quizStarted")>>
             \/ out' = <<Publish(rc, "questionUpdated")>>]_vars
  /\ [][\A rc \in Codes :
          (C16_Running(rc) /\ ~C16_Running(rc)')
          => \/ \E k \in 1..Len(out') : out'[k] = Publish(rc, "allAnswered")
             \/ rc \notin DOMAIN rooms']_vars
  /\ \A rc \in Codes : C16_Running(rc) ~> ~C16_Running(rc)

\* One Player answered, the other left without answering, and the expiry
\* has published the allAnswered of the round.
C16_Witness ==
  \E rc \in DOMAIN rooms :
    /\ out = <<Publish(rc, "timeUp"), Publish(rc, "allAnswered")>>
    /\ rooms[rc].status = "quiz"
    /\ Len(rooms[rc].players) = 1
    /\ rooms[rc].players[1].selectedAnswer = 1
    /\ timeouts = <<>>

AllJoinInputs ==
  JoinInputs \cup MemberJoinInputs \cup CapJoinInputs \cup RoundJoinInputs \cup GuardJoinInputs

AllRejoinPayloads == AllRejoinInputs \cup RoundRejoinInputs \cup GuardRejoinInputs

AllSettingsPayloads == AllSettingsInputs \cup GuardSettingsInputs

AllAnswerPayloads == AllRoundInputs \cup GuardAnswerInputs

\* The room a payload names is unknown, or is in a match and the payload's
\* clientId is not in it, or is full.
C17_JoinRefused(d) ==
  \/ NormCode(d) \notin DOMAIN rooms
  \/ /\ NormCode(d) \in DOMAIN rooms
     /\ LET room == rooms[NormCode(d)]
            lobby == room.status = "waiting" \/ (room.status = "finished" /\ room.rematch)
            known == /\ Has(d, "clientId") /\ d.clientId # ""
                     /\ \E i \in 1..Len(room.players) : room.players[i].clientId = d.clientId
        IN \/ ~lobby /\ ~known
           \/ lobby /\ Len(room.players) >= 10

\* The payload lacks a field, or names an unknown room, or a room in a match
\* that has no Player with the payload's clientId.
C17_RejoinRefused(d) ==
  \/ NormCode(d) = ""
  \/ ~Has(d, "clientId")
  \/ NormCode(d) \notin DOMAIN rooms
  \/ /\ NormCode(d) \in DOMAIN rooms
     /\ LET room == rooms[NormCode(d)] IN
        /\ ~(room.status = "waiting" \/ (room.status = "finished" /\ room.rematch))
        /\ \A i \in 1..Len(room.players) : room.players[i].clientId # d.clientId

\* The caller has no room, or is not its admin.
C17_NotAdmin(s) ==
  CallerRoom(s) \notin DOMAIN rooms \/ rooms[CallerRoom(s)].adminId # s

\* The caller's room is not in a lobby.
C17_NotLobby(s) ==
  /\ CallerRoom(s) \in DOMAIN rooms
  /\ ~( \/ rooms[CallerRoom(s)].status = "waiting"
        \/ rooms[CallerRoom(s)].status = "finished" /\ rooms[CallerRoom(s)].rematch )

\* startQuiz is refused: no admin, no questions, or a Player not ready.
C17_StartRefused(s) ==
  \/ C17_NotAdmin(s)
  \/ /\ ~C17_NotAdmin(s)
     /\ LET room == rooms[CallerRoom(s)] IN
        \/ room.questions = <<>>
        \/ ~room.questionsReady
        \/ /\ room.status = "finished" /\ room.rematch
           /\ \E i \in 1..Len(room.players) : ~room.players[i].ready

\* selectAnswer is refused: no room in a quiz, no Player, or answered before.
C17_AnswerRefused(s) ==
  \/ CallerRoom(s) \notin DOMAIN rooms
  \/ /\ CallerRoom(s) \in DOMAIN rooms
     /\ LET room == rooms[CallerRoom(s)] IN
        \/ room.status # "quiz"
        \/ \A i \in 1..Len(room.players) : room.players[i].id # s
        \/ \E i \in 1..Len(room.players) :
             /\ room.players[i].id = s
             /\ \A j \in 1..(i - 1) : room.players[j].id # s
             /\ room.players[i].answered

\* C17: a request that a guard of its handler refuses changes neither the
\* store, nor any field or Player of any room, nor any timer, and issues no
\* call to the generator.
C17_RefusedChangesNothing ==
  [][\/ /\ rooms' = rooms
        /\ questionTimers' = questionTimers
        /\ timeouts' = timeouts
        /\ pending' = pending
     \/ \A s \in Sockets :
          /\ \A d \in AllJoinInputs : ~(C17_JoinRefused(d) /\ JoinRoom(s, d, now))
          /\ \A d \in AllRejoinPayloads : ~(C17_RejoinRefused(d) /\ RejoinRoom(s, d))
          /\ (C17_NotAdmin(s) \/ C17_NotLobby(s))
             => /\ \A d \in AllSettingsPayloads : ~UpdateSettings(s, d)
                /\ ~GenerateQuestions(s)
          /\ ~(C17_StartRefused(s) /\ StartQuiz(s))
          /\ C17_AnswerRefused(s) => \A d \in AllAnswerPayloads : ~SelectAnswer(s, d)
          /\ (C17_NotAdmin(s) \/ rooms[CallerRoom(s)].status # "quiz") => ~NextQuestion(s)
          /\ ( \/ CallerRoom(s) \notin DOMAIN rooms
               \/ \A i \in 1..Len(rooms[CallerRoom(s)].players) :
                    rooms[CallerRoom(s)].players[i].id # s )
             => ~PlayAgain(s)]_vars

\* A join has been refused on a room of ten Players.
C17_Witness ==
  \E rc \in DOMAIN rooms :
    /\ out = <<Error("s2", "Room is full")>>
    /\ Len(rooms[rc].players) = 10
    /\ rooms[rc].status = "waiting"

\* The events of the step are one error event, sent to connection s.
C18_ErrorTo(s) ==
  /\ Len(out') = 1
  /\ out'[1].kind = "socket"
  /\ out'[1].to = s
  /\ out'[1].ev = "error"

\* C18: a joinRoom, rejoinRoom, updateSettings, generateQuestions, startQuiz
\* or nextQuestion that is refused because the room is unknown, the caller is
\* not the admin, the status does not allow it or the room is full sends one
\* error event, to the caller and to nobody else.
C18_RefusedGetsError ==
  [][\A s \in Sockets :
       /\ \A d \in AllJoinInputs :
            (C17_JoinRefused(d) /\ JoinRoom(s, d, now)) => C18_ErrorTo(s)
       /\ \A d \in AllRejoinPayloads :
            (C17_RejoinRefused(d) /\ RejoinRoom(s, d)) => C18_ErrorTo(s)
       /\ (C17_StartRefused(s) /\ StartQuiz(s)) => C18_ErrorTo(s)
       /\ \A d \in AllSettingsPayloads :
            ((C17_NotAdmin(s) \/ C17_NotLobby(s)) /\ UpdateSettings(s, d)) => C18_ErrorTo(s)
       /\ ((C17_NotAdmin(s) \/ C17_NotLobby(s)) /\ GenerateQuestions(s)) => C18_ErrorTo(s)
       /\ ((C17_NotAdmin(s) \/ rooms[CallerRoom(s)].status # "quiz") /\ NextQuestion(s))
          => C18_ErrorTo(s)]_vars

\* C19: when the generator fails, the store and every room in it, with its
\* questions, questionsReady, status, settings and players, and the timers
\* stay as they were, and the only event is an error sent to the connection
\* that asked; a generateQuestions from the admin of a lobby is accepted
\* whatever calls have failed before.
C19_FailureLeavesRoomIntact ==
  /\ [][\A i \in 1..Len(pending) :
          ( /\ Len(pending') = Len(pending) - 1
            /\ GenFail(i) )
          => /\ rooms' = rooms
             /\ questionTimers' = questionTimers
             /\ timeouts' = timeouts
             /\ Len(out') = 1
             /\ out'[1].kind = "socket"
             /\ out'[1].to = pending[i].sock
             /\ out'[1].ev = "error"]_vars
  /\ [][\A s \in Sockets :
          LET rc == CallerRoom(s) IN
          ( /\ rc \in DOMAIN rooms
            /\ rooms[rc].adminId = s
            /\ rooms[rc].status = "waiting" \/ (rooms[rc].status = "finished" /\ rooms[rc].rematch)
            /\ GenerateQuestions(s) )
          => /\ out' = <<Publish(rc, "generatingQuestions")>>
             /\ Len(pending') = Len(pending) + 1
             /\ pending'[Len(pending')].sock = s]_vars

\* A call has failed for a room that holds the questions of an earlier call:
\* they are still there and still ready.
C19_Witness ==
  \E rc \in DOMAIN rooms :
    /\ out = <<Error(rooms[rc].adminId, "Failed to generate questions")>>
    /\ rooms[rc].status = "waiting"
    /\ rooms[rc].questions # <<>>
    /\ rooms[rc].questionsReady
    /\ pending = <<>>

\* C20: the completion, by success or by failure, of a generateQuestions
\* call whose room is no longer in the store changes nothing in the store
\* and publishes no event to the code of that room.
C20_CompletionForDestroyedRoomIsSilent ==
  [][\A i \in 1..Len(pending) :
       ( /\ ~Stored(pending[i].code, pending[i].oid)
         /\ \/ GenFail(i)
            \/ \E qs \in GenOutputs(pending[i].count) : GenSucceed(i, qs) )
       => /\ rooms' = rooms
          /\ \A k \in 1..Len(out') :
               ~(out'[k].kind = "room" /\ out'[k].to = pending[i].code)]_vars

\* C21: every room with questionsReady true holds exactly questionCount
\* questions.
C21_ReadyQuestionsMatchCount ==
  \A rc \in DOMAIN rooms :
    rooms[rc].questionsReady => Len(rooms[rc].questions) = rooms[rc].questionCount

\* C22: in every room currentQuestion is at least 0 and at most the number
\* of questions the room holds.
C22_CurrentQuestionInRange ==
  \A rc \in DOMAIN rooms :
    /\ 0 <= rooms[rc].currentQuestion
    /\ rooms[rc].currentQuestion <= Len(rooms[rc].questions)

\* C23: in every room questionCount is an integer from 1 to 20 and
\* questionTime is one of 10, 15, 20, 25 and 30.
C23_SettingsInRange ==
  \A rc \in DOMAIN rooms :
    /\ rooms[rc].questionCount \in 1..20
    /\ rooms[rc].questionTime \in {10, 15, 20, 25, 30}

\* The room is in a quiz, or finished with rematch false.
C24_InMatch(room) ==
  room.status = "quiz" \/ (room.status = "finished" /\ ~room.rematch)

\* What a joinRoom or rejoinRoom with payload d from connection s must do to
\* room rc: rebind the Player that has the payload's clientId, or else refuse
\* with an error to s and change nothing.
C24_Post(rc, d, s) ==
  LET ps == rooms[rc].players
      known == /\ Has(d, "clientId")
               /\ \E i \in 1..Len(ps) : ps[i].clientId = d.clientId
  IN /\ Len(rooms'[rc].players) = Len(ps)
     /\ IF known
        THEN rooms' = [rooms EXCEPT ![rc].players = C9_Expected(ps, d.clientId, s)]
        ELSE rooms' = rooms /\ C18_ErrorTo(s)

\* C24: on a room that is in a quiz, or finished with rematch false, a
\* joinRoom or rejoinRoom never lengthens the player list: a clientId that
\* matches a Player rebinds that Player in place, any other caller gets an
\* error and the room is unchanged.
\* (Both handlers end by sending an event to the caller; that is tested
\* first to tell most other steps apart at once.)
C24_NoNewPlayerDuringMatch ==
  [][\A s \in Sockets :
       ( /\ Len(out') >= 1
         /\ out'[Len(out')].kind = "socket"
         /\ out'[Len(out')].to = s )
       => /\ \A d \in AllJoinInputs :
               ( /\ NormCode(d) \in DOMAIN rooms
                 /\ C24_InMatch(rooms[NormCode(d)])
                 /\ JoinRoom(s, d, now) )
               => C24_Post(NormCode(d), d, s)
          /\ \A d \in AllRejoinPayloads :
               ( /\ NormCode(d) \in DOMAIN rooms
                 /\ C24_InMatch(rooms[NormCode(d)])
                 /\ RejoinRoom(s, d) )
               => C24_Post(NormCode(d), d, s)]_vars

\* The creator has left, the remaining Player runs a quiz, and the creator's
\* rejoinRoom has been refused.
C24_Witness ==
  \E rc \in DOMAIN rooms : \E s \in Sockets :
    /\ out = <<Error(s, "Game already in progress")>>
    /\ rooms[rc].status = "quiz"
    /\ Len(rooms[rc].players) = 1
    /\ rooms[rc].players[1].clientId = "c2"

\* C25: while a room is finished with rematch true and one of its Players
\* has ready false, a startQuiz from any caller, the admin included, changes
\* neither the rooms nor the timers and sends an error to the caller.
C25_RematchNeedsEveryoneReady ==
  [][\A s \in Sockets :
       LET rc == CallerRoom(s) IN
       ( /\ rc \in DOMAIN rooms
         /\ rooms[rc].status = "finished"
         /\ rooms[rc].rematch
         /\ \E i \in 1..Len(rooms[rc].players) : ~rooms[rc].players[i].ready
         /\ StartQuiz(s) )
       => /\ rooms' = rooms
          /\ questionTimers' = questionTimers
          /\ timeouts' = timeouts
          /\ C18_ErrorTo(s)]_vars

\* The admin is ready, new questions are ready, a second Player is in the
\* rematch lobby without having pressed Play Again, and the admin's
\* startQuiz has been refused.
C25_Witness ==
  \E rc \in DOMAIN rooms :
    /\ out = <<Error(rooms[rc].adminId, "All players must press Play Again to be ready")>>
    /\ rooms[rc].status = "finished"
    /\ rooms[rc].rematch
    /\ rooms[rc].questionsReady /\ rooms[rc].questions # <<>>
    /\ Len(rooms[rc].players) = 2
    /\ rooms[rc].players[1].ready
    /\ ~rooms[rc].players[2].ready

\* C26: a room goes from status finished to status quiz only from a state
\* with rematch true and every Player ready.
C26_FinishedToQuizOnlyByRematch ==
  [][\A rc \in DOMAIN rooms \cap DOMAIN rooms' :
       ( /\ rooms[rc].status = "finished"
         /\ rooms'[rc].status = "quiz"
         /\ rooms'[rc].oid = rooms[rc].oid )
       => /\ rooms[rc].rematch
          /\ \A i \in 1..Len(rooms[rc].players) : rooms[rc].players[i].ready]_vars

\* C27: an accepted startQuiz leaves the room in status quiz at question 0
\* with rematch false, every Player with score 0, answered false,
\* selectedAnswer and answerTime null, roundPoints 0 and ready false, and
\* one callback scheduled for the room, after questionTime seconds; every
\* other field of the room, the id, clientId, name and order of its Players
\* and every other room are as before.
C27_StartQuizEffect ==
  [][\A s \in Sockets :
       LET rc == CallerRoom(s) IN
       ( /\ out' = <<Publish(rc, "quizStarted")>>
         /\ rc \in DOMAIN rooms
         /\ StartQuiz(s) )
       => /\ rooms' = [rooms EXCEPT
                         ![rc].status = "quiz",
                         ![rc].currentQuestion = 0,
                         ![rc].rematch = FALSE,
                         ![rc].players =
                           [i \in 1..Len(rooms[rc].players) |->
                              [id |-> rooms[rc].players[i].id,
                               clientId |-> rooms[rc].players[i].clientId,
                               name |-> rooms[rc].players[i].name,
                               score |-> 0, answered |-> FALSE, selectedAnswer |-> JsNull,
                               answerTime |-> JsNull, roundPoints |-> 0, ready |-> FALSE]]]
          /\ questionTimers'[rc] =
               [state |-> "armed", oid |-> rooms[rc].oid, dur |-> rooms[rc].questionTime]
          /\ SelectSeq(timeouts', LAMBDA t : t.code = rc) =
               <<[code |-> rc, oid |-> rooms[rc].oid, dur |-> rooms[rc].questionTime]>>]_vars

\* A quiz has just started for two Players, one of whom holds no points and
\* no ready flag any more; one callback is scheduled.
C27_Witness ==
  \E rc \in DOMAIN rooms :
    /\ out = <<Publish(rc, "quizStarted")>>
    /\ rooms[rc].status = "quiz"
    /\ rooms[rc].currentQuestion = 0
    /\ Len(rooms[rc].players) = 2
    /\ \A i \in 1..2 : rooms[rc].players[i].score = 0 /\ ~rooms[rc].players[i].ready
    /\ Len(timeouts) = 1
    /\ timeouts[1].dur = rooms[rc].questionTime

\* C28: a nextQuestion by the admin of a room in status quiz raises
\* currentQuestion by one, resets answered, selectedAnswer, answerTime and
\* roundPoints of every Player and keeps every score; if the new index is
\* past the last question the status becomes finished, otherwise it stays
\* quiz and one callback is scheduled for the room for questionTime seconds.
\* A step that does not start a match never lowers currentQuestion.
C28_NextQuestionEffect ==
  /\ [][\A s \in Sockets :
          LET rc == CallerRoom(s) IN
          ( /\ Len(out') = 1
            /\ out'[1].ev \in {"quizFinished", "questionUpdated"}
            /\ rc \in DOMAIN rooms
            /\ rooms[rc].adminId = s
            /\ rooms[rc].status = "quiz"
            /\ NextQuestion(s) )
          => LET old == rooms[rc]
                 new == rooms'[rc]
                 last == old.currentQuestion + 1 >= Len(old.questions)
             IN
             /\ new.currentQuestion = old.currentQuestion + 1
             /\ Len(new.players) = Len(old.players)
             /\ \A i \in 1..Len(old.players) :
                  new.players[i] =
                    [old.players[i] EXCEPT !.answered = FALSE, !.selectedAnswer = JsNull,
                                           !.answerTime = JsNull, !.roundPoints = 0]
             /\ new.status = IF last THEN "finished" ELSE "quiz"
             /\ new = [old EXCEPT !.currentQuestion = new.currentQuestion,
                                  !.players = new.players,
                                  !.status = new.status]
             /\ ~last =>
                  /\ questionTimers'[rc] =
                       [state |-> "armed", oid |-> old.oid, dur |-> old.questionTime]
                  /\ SelectSeq(timeouts', LAMBDA t : t.code = rc) =
                       <<[code |-> rc, oid |-> old.oid, dur |-> old.questionTime]>>]_vars
  /\ [][\A rc \in DOMAIN rooms \cap DOMAIN rooms' :
          rooms'[rc].oid = rooms[rc].oid
          => \/ rooms'[rc].currentQuestion >= rooms[rc].currentQuestion
             \/ out' = <<Publish(rc, "quizStarted")>>]_vars

\* The second question has just been opened: nobody has answered it, a
\* Player keeps the points of the first one, and the timer runs again.
C28_Witness ==
  \E rc \in DOMAIN rooms :
    /\ out = <<Publish(rc, "questionUpdated")>>
    /\ rooms[rc].status = "quiz"
    /\ rooms[rc].currentQuestion = 1
    /\ \E i \in 1..Len(rooms[rc].players) : rooms[rc].players[i].score > 0
    /\ \A i \in 1..Len(rooms[rc].players) :
         ~rooms[rc].players[i].answered /\ rooms[rc].players[i].selectedAnswer = JsNull
    /\ questionTimers[rc].state = "armed"

\* C29: a playAgain by a Player of a room sets rematch, sets ready for
\* that Player only (the first entry of the list that carries the caller's
\* connection id) and clears questionsReady; status, currentQuestion,
\* adminId, the settings, the questions, every score and the ready flag of
\* every other Player are as before, and so are the timers.
C29_PlayAgainEffect ==
  [][\A s \in Sockets :
       LET rc == CallerRoom(s) IN
       ( /\ Len(out') = 2
         /\ out'[2] = Reply(s, "goToLobby")
         /\ rc \in DOMAIN rooms
         /\ \E i \in 1..Len(rooms[rc].players) : rooms[rc].players[i].id = s
         /\ PlayAgain(s) )
       => /\ rooms' = [rooms EXCEPT
                         ![rc].rematch = TRUE,
                         ![rc].questionsReady = FALSE,
                         ![rc].players =
                           [i \in 1..Len(rooms[rc].players) |->
                              IF /\ rooms[rc].players[i].id = s
                                 /\ \A k \in 1..(i - 1) : rooms[rc].players[k].id # s
                              THEN [rooms[rc].players[i] EXCEPT !.ready = TRUE]
                              ELSE rooms[rc].players[i]]]
          /\ questionTimers' = questionTimers
          /\ timeouts' = timeouts]_vars

\* One of two Players has asked for a rematch after a match in which
\* points were scored: the room is still finished and the other Player is
\* not ready.
C29_Witness ==
  \E rc \in DOMAIN rooms :
    /\ Len(out) = 2
    /\ out[2].ev = "goToLobby"
    /\ rooms[rc].status = "finished"
    /\ rooms[rc].rematch
    /\ ~rooms[rc].questionsReady
    /\ Len(rooms[rc].players) = 2
    /\ \E i, j \in 1..2 :
         /\ rooms[rc].players[i].id = out[2].to
         /\ rooms[rc].players[i].ready
         /\ ~rooms[rc].players[j].ready
         /\ rooms[rc].players[j].score > 0

\* C30: a room with rematch true is in status finished.
C30_RematchOnlyWhenFinished ==
  \A rc \in DOMAIN rooms : rooms[rc].rematch => rooms[rc].status = "finished"

\* C31: every step that changes a field of a room that stays in the store
\* publishes roomUpdated to that room among the events of the step.
C31_MutationPublishesRoomUpdated ==
  [][\A rc \in DOMAIN rooms \cap DOMAIN rooms' :
       ( /\ rooms'[rc].oid = rooms[rc].oid
         /\ rooms'[rc] # rooms[rc] )
       => \E i \in 1..Len(out') : out'[i] = Publish(rc, "roomUpdated")]_vars

\* C32: a callback is scheduled, or a timer handle armed, for a room only
\* while that room is in status quiz.
C32_TimerOnlyDuringQuiz ==
  /\ \A i \in 1..Len(timeouts) :
       Stored(timeouts[i].code, timeouts[i].oid) => rooms[timeouts[i].code].status = "quiz"
  /\ \A rc \in DOMAIN rooms :
       (questionTimers[rc].state = "armed" /\ questionTimers[rc].oid = rooms[rc].oid)
       => rooms[rc].status = "quiz"

\* ------------------------------------- SpecOverlap: overlapping generations
\* One admin alone in a room changes the question count between two calls
\* to the generator, which may both be waiting for their answer.
OverlapCallers == {"s1"}
OverlapCreateInputs == {[clientId |-> "c1", questionCount |-> 1]}
OverlapSettingsInputs == {[questionCount |-> 2]}
OverlapAnswerInputs == {[answer |-> 1, timeRemaining |-> 10]}

StepOverlap ==
  \/ \E s \in OverlapCallers, d \in OverlapCreateInputs, rc \in SpecCodes :
        nextOid <= MaxCreates /\ CreateRoom(s, d, rc, now)
  \/ \E s \in OverlapCallers, d \in OverlapSettingsInputs : UpdateSettings(s, d)
  \/ \E s \in OverlapCallers : Len(pending) <= MaxPending /\ GenerateQuestions(s)
  \/ \E i \in 1..Len(pending) : \E qs \in GenOutputs(pending[i].count) : GenSucceed(i, qs)
  \/ \E s \in OverlapCallers : StartQuiz(s)
  \/ \E s \in OverlapCallers, d \in OverlapAnswerInputs : SelectAnswer(s, d)
  \/ \E s \in OverlapCallers : NextQuestion(s)

NextOverlap == UNCHANGED steps /\ StepOverlap

SpecOverlap == Init /\ [][NextOverlap]_vars

\* C33: a room in status quiz has a question at index currentQuestion.
C33_QuizHasCurrentQuestion ==
  \A rc \in DOMAIN rooms :
    rooms[rc].status = "quiz" => rooms[rc].currentQuestion < Len(rooms[rc].questions)

\* The step removes no Player from room rc and adds none.
C34_SamePlayers(rc) ==
  /\ rc \in DOMAIN rooms \cap DOMAIN rooms'
  /\ rooms'[rc].oid = rooms[rc].oid
  /\ Len(rooms'[rc].players) = Len(rooms[rc].players)
  /\ \A i \in 1..Len(rooms[rc].players) :
       rooms'[rc].players[i].clientId = rooms[rc].players[i].clientId

\* C34: a selectAnswer from the connection of a Player who has answered,
\* or has been force-answered, changes no field of any room, no timer and
\* publishes nothing; and a Player who has answered keeps that flag and the
\* score, whatever connection the Player is bound to, until a step that
\* publishes quizStarted, questionUpdated or quizFinished.
C34_AnswerScoredOnce ==
  /\ [][\A s \in Sockets :
          LET rc == CallerRoom(s) IN
          ( /\ out' = <<>>
            /\ rc \in DOMAIN rooms
            /\ rooms[rc].status = "quiz"
            /\ \E i \in 1..Len(rooms[rc].players) :
                 /\ rooms[rc].players[i].id = s
                 /\ rooms[rc].players[i].answered
                 /\ \A k \in 1..(i - 1) : rooms[rc].players[k].id # s
            /\ \E d \in AllRoundInputs : SelectAnswer(s, d) )
          => /\ rooms' = rooms
             /\ questionTimers' = questionTimers
             /\ timeouts' = timeouts]_vars
  /\ [][\A rc \in DOMAIN rooms :
          ( /\ rooms[rc].status = "quiz"
            /\ C34_SamePlayers(rc)
            /\ out' \notin {<<Publish(rc, "quizStarted")>>,
                            <<Publish(rc, "questionUpdated")>>,
                            <<Publish(rc, "quizFinished")>>} )
          => \A i \in 1..Len(rooms[rc].players) :
               rooms[rc].players[i].answered
               => /\ rooms'[rc].players[i].answered
                  /\ rooms'[rc].players[i].score = rooms[rc].players[i].score
                  /\ rooms'[rc].players[i].selectedAnswer = rooms[rc].players[i].selectedAnswer]_vars

\* A Player who scored on the current question is now bound to another
\* connection than the one that created the room, and the last step
\* published nothing.
C34_Witness ==
  \E rc \in DOMAIN rooms :
    /\ out = <<>>
    /\ rooms[rc].status = "quiz"
    /\ Len(rooms[rc].players) = 1
    /\ rooms[rc].players[1].id = "s2"
    /\ rooms[rc].players[1].answered
    /\ rooms[rc].players[1].score > 0
    /\ joined["s1"] = <<rc>>
    /\ socketRoomMap["s2"] = rc

\* C35: when every connection has disconnected the Room Store is empty.
C35_NoRoomOutlivesItsConnections ==
  connected = {} => DOMAIN rooms = {}

====
